---- MODULE Spec2Model ----
(***************************************************************************)
(* alx-polly: the CSRF token service (src/lib/csrf-protection.ts), the     *)
(* token issuance endpoint and the four mutating server actions of         *)
(* src/app/lib/actions/poll-actions.ts, run as concurrent requests against *)
(* one cookie store and one poll store (tables polls and votes).           *)
(*                                                                         *)
(* A request is one slot of req.  Every await on the poll store is a step  *)
(* of its own, so requests interleave exactly where the code can be        *)
(* preempted.  A handler reads each field of its payload where the code   *)
(* reads it, so a request that is turned away early has no value for the   *)
(* fields it never read.  The steps before the first store call (token     *)
(* check, input validation, getUser) touch nothing shared and run without  *)
(* interleaving.  A response is visible in req in the state in which it is *)
(* returned and is gone with the next step; the token a request presented  *)
(* stays in req until the request's next step.                             *)
(***************************************************************************)
EXTENDS Integers, Sequences, FiniteSets, Bags, TLC

\* ---------------------------------------------------------------- bounds
\* secrets generateCSRFToken can draw
NumSecrets == 2
\* poll rows the store ever assigns an id to
MaxPolls == 1
\* requests in flight at the same time
NumReqs == 2
\* requests received in one behaviour
MaxRequests == 3

\* ------------------------------------------------------ program constants
MaxQuestionLen == 500
MinOptions == 2
MaxOptions == 10
MaxOptionLen == 200

\* ------------------------------------------------------------- messages
ErrToken == "Invalid security token. Please refresh the page and try again."
ErrQuestion == "Please provide a valid question."
ErrQuestionLong == "Question is too long. Maximum 500 characters allowed."
ErrFewOptions == "Please provide at least two options."
ErrManyOptions == "Maximum 10 options allowed."
ErrEmptyOption == "Empty options are not allowed."
ErrOptionLong == "Option text is too long. Maximum 200 characters allowed."
ErrDuplicate == "Duplicate options are not allowed."
ErrLoginCreate == "You must be logged in to create a poll."
ErrLoginVote == "You must be logged in to vote."
ErrLoginDelete == "You must be logged in to delete a poll."
ErrLoginUpdate == "You must be logged in to update a poll."
ErrAlreadyVoted == "You have already voted on this poll."
ErrInvalidOption == "Invalid option selected."
ErrPermDelete == "You don't have permission to delete this poll."
ErrPermUpdate == "You don't have permission to update this poll."
\* error.message of a failed auth call / a failed store call (opaque text)
ErrAuth == "<auth service error>"
ErrStore == "<store error>"
\* { error: null }
ErrNull == "null"
\* no response yet
Pending == "pending"

\* --------------------------------------------------------------- strings
\* A string is a sequence of characters; " " is the whitespace trim() strips.
RECURSIVE TrimStart(_)
TrimStart(s) ==
  IF s # <<>> /\ Head(s) = " " THEN TrimStart(Tail(s)) ELSE s

RECURSIVE TrimEnd(_)
TrimEnd(s) ==
  IF s # <<>> /\ s[Len(s)] = " " THEN TrimEnd(SubSeq(s, 1, Len(s) - 1)) ELSE s

Trim(s) == TrimEnd(TrimStart(s))

\* options.map(opt => opt.trim())
TrimAll(opts) == [i \in 1..Len(opts) |-> Trim(opts[i])]

\* formData.getAll("options").filter(Boolean): empty strings are dropped
FilterBoolean(opts) == SelectSeq(opts, LAMBDA o : o # <<>>)

\* ------------------------------------------------------------ identities
Users == {"u1", "u2", "adm"}
\* identities whose app_metadata.role is 'admin'
Admins == {"adm"}
\* getUser() resolved with user null and no error
NoUser == "nobody"
\* getUser() resolved with an error
AuthFailed == "autherror"
Sessions == Users \cup {NoUser, AuthFailed}

IsAdmin(u) == u \in Admins

\* ----------------------------------------------------------- CSRF tokens
\* generateCSRFToken draws one of these (never the empty string); a draw
\* may repeat an earlier one
Secrets == 1..NumSecrets
\* the empty string presented as a candidate
EmptyToken == 0
\* a value absent from the payload is <<>>, a value v present is <<v>>
Absent == <<>>
NoCookie == <<>>

\* a digest that maps every token to the same value
hashToken_Collide(token) == <<"sha256", 0>>

\* sha256 is modelled as a collision-free symbolic digest
hashToken(token) == <<"sha256", token>>

\* the candidate is compared without being hashed
validateCSRFToken_Raw(stored, token) ==
  IF stored = NoCookie \/ token = EmptyToken
  THEN FALSE
  ELSE <<"raw", token>> = stored

\* the guard returns true instead of false
validateCSRFToken_FailOpen(stored, token) ==
  IF stored = NoCookie \/ token = EmptyToken
  THEN TRUE
  ELSE hashToken(token) = stored

validateCSRFToken(stored, token) ==
  IF stored = NoCookie \/ token = EmptyToken
  THEN FALSE
  ELSE hashToken(token) = stored

VARIABLES
  cookie,   \* value of the csrf_token cookie of the client, or NoCookie
  issued,   \* secrets returned by GET /api/csrf so far
  latest,   \* <<s>>: s was returned by the most recent issuance; <<>>: none yet
  polls,    \* table polls: set of rows [id, user_id, question, options]
  votes,    \* table votes: bag of rows [poll_id, user_id, option_index]
  nextId,   \* next id the store assigns to a poll row
  req,      \* the requests: slot -> handler, position, arguments, response
  started,  \* number of requests received so far
  createForm,   \* PollCreateForm: its options state and the value it rendered
  authProvider  \* AuthProvider: its state, its effect's flag and callbacks

vars ==
  <<cookie, issued, latest, polls, votes, nextId, req, started,
    createForm, authProvider>>

Reqs == 1..NumReqs

\* ------------------------------------------------------- request payloads
TokenFields == {Absent} \cup {<<t>> : t \in {EmptyToken} \cup Secrets}
QuestionFields == { Absent, << <<" ", "q">> >> }
OptionFields ==
  { << <<"x">>, <<>> >>,
    << <<"x">>, <<"y", " ">> >>,
    << <<"x">>, <<"y">>, <<"z">> >> }
\* what a form can carry at the limits of the input rules: c repeated n
\* times, questions and option lists at and just past every limit
Rep(c, n) == [i \in 1..n |-> c]
FormQuestionFields ==
  { Absent,
    << <<>> >>,
    << <<" ">> >>,
    << <<" ", "q">> >>,
    << Rep("q", MaxQuestionLen) >>,
    << Rep("q", MaxQuestionLen + 1) >>,
    << <<" ">> \o Rep("q", MaxQuestionLen) >> }
Letters == <<"a", "b", "c", "d", "e", "f", "g", "h", "i", "j", "k">>
FormOptionFields ==
  { << <<"x">> >>,
    << <<"x">>, <<>> >>,
    << <<"x">>, <<>>, <<"y">> >>,
    << <<"x">>, <<" ">> >>,
    << <<"x">>, <<"x", " ">> >>,
    << <<"x">>, Rep("y", MaxOptionLen) >>,
    << <<"x">>, Rep("y", MaxOptionLen + 1) >>,
    << <<"x">>, Rep("y", MaxOptionLen) \o <<" ">> >>,
    << Rep("y", MaxOptionLen + 1), <<" ">> >>,
    << <<" ">>, Rep("y", MaxOptionLen + 1) >>,
    << Rep("y", MaxOptionLen + 1), <<"x">>, <<"x">> >>,
    [i \in 1..MaxOptions |-> <<Letters[i]>>],
    [i \in 1..(MaxOptions + 1) |-> <<Letters[i]>>],
    [i \in 1..(MaxOptions + 1) |-> <<" ">>] }
PollIds == 1..MaxPolls
OptionIndexes == {0 - 1, 0, 2, 3}

\* ------------------------------------------------------ input validation
\* every option is tested for emptiness before any is tested for length
CheckOptions_EmptyFirst(options, i) ==
  IF \E k \in i..Len(options) : Trim(options[k]) = <<>> THEN ErrEmptyOption
  ELSE IF \E k \in i..Len(options) : Len(options[k]) > MaxOptionLen
  THEN ErrOptionLong
  ELSE ErrNull

\* the for-loop over the options: the first option that is empty after
\* trimming or longer than the limit decides the error
RECURSIVE CheckOptions(_, _)
CheckOptions(options, i) ==
  IF i > Len(options) THEN ErrNull
  ELSE IF Trim(options[i]) = <<>> THEN ErrEmptyOption
  ELSE IF Len(options[i]) > MaxOptionLen THEN ErrOptionLong
  ELSE CheckOptions(options, i + 1)

\* the check for duplicate options is missing
ValidateInput_NoDuplicates(question, options) ==
  IF question = Absent \/ question[1] = <<>> \/ Trim(question[1]) = <<>>
  THEN ErrQuestion
  ELSE IF Len(question[1]) > MaxQuestionLen THEN ErrQuestionLong
  ELSE IF Len(options) < MinOptions THEN ErrFewOptions
  ELSE IF Len(options) > MaxOptions THEN ErrManyOptions
  ELSE CheckOptions(options, 1)

\* the upper limit on the number of options is compared with >=
ValidateInput_TenRejected(question, options) ==
  IF question = Absent \/ question[1] = <<>> \/ Trim(question[1]) = <<>>
  THEN ErrQuestion
  ELSE IF Len(question[1]) > MaxQuestionLen THEN ErrQuestionLong
  ELSE IF Len(options) < MinOptions THEN ErrFewOptions
  ELSE IF Len(options) >= MaxOptions THEN ErrManyOptions
  ELSE IF CheckOptions(options, 1) # ErrNull THEN CheckOptions(options, 1)
  ELSE IF Cardinality({Trim(options[i]) : i \in 1..Len(options)}) # Len(options)
  THEN ErrDuplicate
  ELSE ErrNull

\* question: <<>> (no field) or <<string>>; options: after filter(Boolean)
ValidateInput(question, options) ==
  IF question = Absent \/ question[1] = <<>> \/ Trim(question[1]) = <<>>
  THEN ErrQuestion
  ELSE IF Len(question[1]) > MaxQuestionLen THEN ErrQuestionLong
  ELSE IF Len(options) < MinOptions THEN ErrFewOptions
  ELSE IF Len(options) > MaxOptions THEN ErrManyOptions
  ELSE IF CheckOptions(options, 1) # ErrNull THEN CheckOptions(options, 1)
  ELSE IF Cardinality({Trim(options[i]) : i \in 1..Len(options)}) # Len(options)
  THEN ErrDuplicate
  ELSE ErrNull

\* ------------------------------------------------------------ the store
PollRows(id) == {p \in polls : p.id = id}
\* rows of votes with this poll_id and user_id, counted with multiplicity
VoteCount(pollId, userId) ==
  BagCardinality([v \in {w \in DOMAIN votes :
                          w.poll_id = pollId /\ w.user_id = userId}
                  |-> votes[v]])
VotesOfPoll(pollId) ==
  BagCardinality([v \in {w \in DOMAIN votes : w.poll_id = pollId}
                  |-> votes[v]])
\* delete from votes where poll_id = id
DeleteVotesOf(id) ==
  [v \in {w \in DOMAIN votes : w.poll_id # id} |-> votes[v]]
\* update polls set question, options where id = id
\* the update is not restricted to the row with the id
UpdatePollRows_EveryRow(id, question, options) ==
  {[p EXCEPT !.question = question, !.options = options] : p \in polls}

UpdatePollRows(id, question, options) ==
  {IF p.id = id
   THEN [p EXCEPT !.question = question, !.options = options]
   ELSE p : p \in polls}

\* ------------------------------------------------------------- requests
IdleReq ==
  [op |-> "idle", pc |-> "idle", token |-> Absent, user |-> NoUser,
   pollId |-> 0, question |-> Absent, options |-> <<>>, optionIndex |-> 0,
   form |-> FALSE, method |-> "", path |-> <<>>, deleted |-> FALSE,
   result |-> Pending]

\* the responses of the previous step have left; their slots are free again
Live == [r \in Reqs |-> IF req[r].pc = "done" THEN IdleReq ELSE req[r]]

Free(r) == req[r].pc \in {"idle", "done"}
\* no request is between its entry and its first store call
Quiet == \A r \in Reqs : req[r].pc \notin {"validate", "getUser"}
InFlight(op) == Cardinality({r \in Reqs : req[r].op = op /\ ~Free(r)})

\* return { error: e }
Return(r, e) ==
  req' = [Live EXCEPT ![r] = [req[r] EXCEPT !.pc = "done", !.result = e]]
Goto(r, pc) ==
  req' = [Live EXCEPT ![r] = [req[r] EXCEPT !.pc = pc]]
\* a request arrives; it takes the lowest free slot (slots are
\* interchangeable), and at most MaxRequests requests arrive
Receive(r, call) ==
  /\ Free(r) /\ Quiet
  /\ \A q \in Reqs : q < r => ~Free(q)
  /\ started < MaxRequests
  /\ started' = started + 1
  /\ req' = [Live EXCEPT ![r] = call]

\* ------------------------------------------------------ client components
\* values typed into an option input: the empty string or a text
OptionValues == { <<>>, <<"a">> }
\* the option inputs the model lets the form grow to
MaxFormOptions == 4

\* removeOption: options.length > 2
FormMinOptions == 2

\* useState(["", ""])
InitialOptions == << <<>>, <<>> >>

\* supabase sessions: the signed-out state, or a session of a user
NoSession == "nosession"
AuthSessions == {NoSession} \cup Users
\* session?.user ?? null
SessionUser(session) == IF session = NoSession THEN NoUser ELSE session

Init ==
  /\ cookie = NoCookie
  /\ issued = {}
  /\ latest = <<>>
  /\ polls = {}
  /\ votes = EmptyBag
  /\ nextId = 1
  /\ req = [r \in Reqs |-> IdleReq]
  /\ started = 0
  /\ createForm = [options |-> InitialOptions, rendered |-> InitialOptions]
  /\ authProvider =
       [session |-> NoSession, user |-> NoUser, loading |-> TRUE,
        mounted |-> TRUE, getUser |-> "pending", subscribed |-> TRUE]

\* ------------------------------------------------------- token service
\* GET /api/csrf -> getCSRFToken -> setCSRFToken
IssueToken ==
  /\ Quiet
  /\ \E s \in Secrets :
       /\ cookie' = hashToken(s)
       /\ issued' = issued \cup {s}
       /\ latest' = <<s>>
  /\ req' = Live
  /\ UNCHANGED <<polls, votes, nextId, started, createForm, authProvider>>

\* the cookie's maxAge elapses: the client drops it
ExpireCookie ==
  /\ Quiet
  /\ cookie # NoCookie
  /\ cookie' = NoCookie
  /\ req' = Live
  /\ UNCHANGED <<issued, latest, polls, votes, nextId, started, createForm, authProvider>>

\* --------------------------------------------------- shared gate steps
\* the token is checked only when one is supplied, as submitVote does
TokenRejected_Optional(stored, token) ==
  token # Absent /\ token[1] # EmptyToken
    /\ ~validateCSRFToken(stored, token[1])

\* if (!csrfToken || !validateCSRFToken(csrfToken))
TokenRejected(stored, token) ==
  token = Absent \/ token[1] = EmptyToken
    \/ ~validateCSRFToken(stored, token[1])

\* createPoll / updatePoll: read question and options out of the form
\* data, validate them
ValidateStepOn(r, op, questions, optionLists) ==
  /\ req[r].op = op /\ req[r].pc = "validate"
  /\ \E question \in questions, rawOptions \in optionLists :
       LET options == FilterBoolean(rawOptions)
           e == ValidateInput(question, options)
           read == [req[r] EXCEPT !.token = Absent, !.question = question,
                                  !.options = options]
       IN req' = [Live EXCEPT ![r] =
                    IF e = ErrNull
                    THEN [read EXCEPT !.pc = "getUser"]
                    ELSE [read EXCEPT !.pc = "done", !.result = e]]
  /\ UNCHANGED <<cookie, issued, latest, polls, votes, nextId, started, createForm, authProvider>>

ValidateStep(r, op) == ValidateStepOn(r, op, QuestionFields, OptionFields)

\* the null-user check is missing: the handler goes on without a user
GetUserStep_NoLoginCheck(r, op, checkError, errLogin, nextPc) ==
  /\ req[r].op = op /\ req[r].pc = "getUser"
  /\ \E session \in Sessions :
       LET got == [req[r] EXCEPT !.token = Absent, !.user = session]
       IN req' = [Live EXCEPT ![r] =
                    IF session = AuthFailed /\ checkError
                    THEN [got EXCEPT !.pc = "done", !.result = ErrAuth]
                    ELSE [got EXCEPT !.pc = nextPc[IsAdmin(session)]]]
  /\ UNCHANGED <<cookie, issued, latest, polls, votes, nextId, started, createForm, authProvider>>

\* supabase.auth.getUser() resolves to a user, to no user, or to an error;
\* checkError: the handler returns userError.message; errLogin: its
\* must-be-logged-in message; nextPc: where it goes on, by isAdmin
GetUserStep(r, op, checkError, errLogin, nextPc) ==
  /\ req[r].op = op /\ req[r].pc = "getUser"
  /\ \E session \in Sessions :
       LET got == [req[r] EXCEPT !.token = Absent, !.user = session]
       IN req' = [Live EXCEPT ![r] =
                    IF session = AuthFailed /\ checkError
                    THEN [got EXCEPT !.pc = "done", !.result = ErrAuth]
                    ELSE IF session \notin Users
                    THEN [got EXCEPT !.pc = "done", !.result = errLogin]
                    ELSE [got EXCEPT !.pc = nextPc[IsAdmin(session)]]]
  /\ UNCHANGED <<cookie, issued, latest, polls, votes, nextId, started, createForm, authProvider>>

\* ----------------------------------------------------------- createPoll
\* a token that is accepted is used up: the cookie is cleared
CreatePollStart_Consume(r) ==
  /\ nextId + InFlight("createPoll") <= MaxPolls
  /\ \E token \in TokenFields :
       LET call == [IdleReq EXCEPT !.op = "createPoll", !.token = token]
       IN IF TokenRejected(cookie, token)
          THEN /\ Receive(r, [call EXCEPT !.pc = "done",
                                           !.result = ErrToken])
               /\ cookie' = cookie
          ELSE /\ Receive(r, [call EXCEPT !.pc = "validate"])
               /\ cookie' = NoCookie
  /\ UNCHANGED <<issued, latest, polls, votes, nextId, createForm, authProvider>>

\* lines 8-15
CreatePollStart(r) ==
  /\ nextId + InFlight("createPoll") <= MaxPolls
  /\ \E token \in TokenFields :
       LET call == [IdleReq EXCEPT !.op = "createPoll", !.token = token]
       IN Receive(r, IF TokenRejected(cookie, token)
                     THEN [call EXCEPT !.pc = "done", !.result = ErrToken]
                     ELSE [call EXCEPT !.pc = "validate"])
  /\ UNCHANGED <<cookie, issued, latest, polls, votes, nextId, createForm, authProvider>>

\* the poll creation form (PollCreateForm.tsx): the names of the inputs
\* it renders
PollCreateFormInputs == {"question", "options"}
\* CSRF.FIELD_NAME
CsrfFormField == "csrf_token"
\* the value of the hidden input the CSRFToken component renders: the
\* empty string until its fetch of /api/csrf has resolved, then the
\* secret it fetched
CSRFTokenValue == IF latest = <<>> THEN EmptyToken ELSE latest[1]
\* formData.get(CSRF.FIELD_NAME) of a submission of the form
FormCsrfToken ==
  IF CsrfFormField \in PollCreateFormInputs
  THEN <<CSRFTokenValue>>
  ELSE Absent

\* the form's action: createPoll(formData) with the form's own fields
PollCreateFormSubmit(r) ==
  /\ nextId + InFlight("createPoll") <= MaxPolls
  /\ LET call == [IdleReq EXCEPT !.op = "createPoll", !.form = TRUE,
                                 !.token = FormCsrfToken]
     IN Receive(r, IF TokenRejected(cookie, call.token)
                   THEN [call EXCEPT !.pc = "done", !.result = ErrToken]
                   ELSE [call EXCEPT !.pc = "validate"])
  /\ UNCHANGED <<cookie, issued, latest, polls, votes, nextId, createForm, authProvider>>

\* lines 17-52
CreatePollValidate(r) == ValidateStep(r, "createPoll")

\* lines 54-64
CreatePollGetUser(r) ==
  GetUserStep(r, "createPoll", TRUE, ErrLoginCreate,
              [a \in BOOLEAN |-> "insert"])

\* a failed insert is tried again from the identity check
CreatePollInsert_Retry(r) ==
  /\ Quiet
  /\ req[r].op = "createPoll" /\ req[r].pc = "insert"
  /\ \/ /\ Goto(r, "getUser")
        /\ UNCHANGED <<polls, nextId>>
     \/ /\ polls' = polls \cup
                      {[id |-> nextId, user_id |-> req[r].user,
                        question |-> Trim(req[r].question[1]),
                        options |-> TrimAll(req[r].options)]}
        /\ nextId' = nextId + 1
        /\ Return(r, ErrNull)
  /\ UNCHANGED <<cookie, issued, latest, votes, started, createForm, authProvider>>

\* lines 66-84: sanitize, insert into polls
CreatePollInsert(r) ==
  /\ Quiet
  /\ req[r].op = "createPoll" /\ req[r].pc = "insert"
  /\ \/ /\ Return(r, ErrStore)
        /\ UNCHANGED <<polls, nextId>>
     \/ /\ polls' = polls \cup
                      {[id |-> nextId, user_id |-> req[r].user,
                        question |-> Trim(req[r].question[1]),
                        options |-> TrimAll(req[r].options)]}
        /\ nextId' = nextId + 1
        /\ Return(r, ErrNull)
  /\ UNCHANGED <<cookie, issued, latest, votes, started, createForm, authProvider>>

\* ----------------------------------------------------------- submitVote
\* a missing token is refused as well, as createPoll does
VoteTokenRejected_Required(stored, token) ==
  token = Absent \/ token[1] = EmptyToken
    \/ ~validateCSRFToken(stored, token[1])

\* if (csrfToken && !validateCSRFToken(csrfToken))
VoteTokenRejected(stored, token) ==
  token # Absent /\ token[1] # EmptyToken
    /\ ~validateCSRFToken(stored, token[1])

\* lines 118-122: the token is checked only when one is supplied
SubmitVoteStart(r) ==
  /\ \E pollId \in PollIds, token \in TokenFields :
       LET call == [IdleReq EXCEPT !.op = "submitVote", !.token = token,
                                   !.pollId = pollId]
       IN Receive(r, IF VoteTokenRejected(cookie, token)
                     THEN [call EXCEPT !.pc = "done", !.result = ErrToken]
                     ELSE [call EXCEPT !.pc = "getUser"])
  /\ UNCHANGED <<cookie, issued, latest, polls, votes, nextId, createForm, authProvider>>

\* lines 124-130: the error of getUser is not looked at
SubmitVoteGetUser(r) ==
  GetUserStep(r, "submitVote", FALSE, ErrLoginVote,
              [a \in BOOLEAN |-> "checkVote"])

\* the existing vote is looked up but not acted on
SubmitVoteCheck_NoReject(r) ==
  /\ Quiet
  /\ req[r].op = "submitVote" /\ req[r].pc = "checkVote"
  /\ \/ Return(r, ErrStore)
     \/ Goto(r, "getPoll")
  /\ UNCHANGED <<cookie, issued, latest, polls, votes, nextId, started, createForm, authProvider>>

\* lines 132-141: select from votes ... maybeSingle(), which fails on
\* more than one row
SubmitVoteCheck(r) ==
  /\ Quiet
  /\ req[r].op = "submitVote" /\ req[r].pc = "checkVote"
  /\ \/ Return(r, ErrStore)
     \/ /\ VoteCount(req[r].pollId, req[r].user) > 1
        /\ Return(r, ErrStore)
     \/ /\ VoteCount(req[r].pollId, req[r].user) = 1
        /\ Return(r, ErrAlreadyVoted)
     \/ /\ VoteCount(req[r].pollId, req[r].user) = 0
        /\ Goto(r, "getPoll")
  /\ UNCHANGED <<cookie, issued, latest, polls, votes, nextId, started, createForm, authProvider>>

\* the upper bound is compared with > instead of >=
InvalidIndex_OffByOne(poll, optionIndex) ==
  optionIndex < 0 \/ optionIndex > Len(poll.options)

\* if (optionIndex < 0 || optionIndex >= poll.options.length)
InvalidIndex(poll, optionIndex) ==
  optionIndex < 0 \/ optionIndex >= Len(poll.options)

\* lines 143-156: select options from polls ... single(), which fails
\* unless there is exactly one row
SubmitVoteGetPoll(r) ==
  /\ Quiet
  /\ req[r].op = "submitVote" /\ req[r].pc = "getPoll"
  /\ \/ Return(r, ErrStore)
     \/ /\ PollRows(req[r].pollId) = {}
        /\ Return(r, ErrStore)
     \/ \E poll \in PollRows(req[r].pollId), optionIndex \in OptionIndexes :
          LET read == [req[r] EXCEPT !.optionIndex = optionIndex]
          IN req' = [Live EXCEPT ![r] =
                       IF InvalidIndex(poll, optionIndex)
                       THEN [read EXCEPT !.pc = "done",
                                         !.result = ErrInvalidOption]
                       ELSE [read EXCEPT !.pc = "insert"]]
  /\ UNCHANGED <<cookie, issued, latest, polls, votes, nextId, started, createForm, authProvider>>

\* a store with a unique constraint on (poll_id, user_id) that drops the
\* second row
InsertVote_Unique(row) ==
  IF VoteCount(row.poll_id, row.user_id) > 0
  THEN votes
  ELSE votes (+) SetToBag({row})

\* the store's insert into votes: no constraint is checked
InsertVote(row) == votes (+) SetToBag({row})

\* user_id: user?.id ?? null, with the signed-out row stored as such
SubmitVoteInsert_Anonymous(r) ==
  /\ Quiet
  /\ req[r].op = "submitVote" /\ req[r].pc = "insert"
  /\ \/ /\ Return(r, ErrStore)
        /\ UNCHANGED votes
     \/ /\ votes' = InsertVote([poll_id |-> req[r].pollId,
                                user_id |-> NoUser,
                                option_index |-> req[r].optionIndex])
        /\ Return(r, ErrNull)
  /\ UNCHANGED <<cookie, issued, latest, polls, nextId, started, createForm, authProvider>>

\* lines 158-168
SubmitVoteInsert(r) ==
  /\ Quiet
  /\ req[r].op = "submitVote" /\ req[r].pc = "insert"
  /\ \/ /\ Return(r, ErrStore)
        /\ UNCHANGED votes
     \/ /\ votes' = InsertVote([poll_id |-> req[r].pollId,
                                user_id |-> req[r].user,
                                option_index |-> req[r].optionIndex])
        /\ Return(r, ErrNull)
  /\ UNCHANGED <<cookie, issued, latest, polls, nextId, started, createForm, authProvider>>

\* ----------------------------------------------------------- deletePoll
\* lines 171-172: no token is read
DeletePollStart(r) ==
  /\ \E id \in PollIds :
       Receive(r, [IdleReq EXCEPT !.op = "deletePoll", !.pollId = id,
                                  !.pc = "getUser"])
  /\ UNCHANGED <<cookie, issued, latest, polls, votes, nextId, createForm, authProvider>>

\* lines 174-187: an admin skips the ownership check
DeletePollGetUser(r) ==
  GetUserStep(r, "deletePoll", TRUE, ErrLoginDelete,
              [a \in BOOLEAN |-> IF a THEN "delVotes" ELSE "getPoll"])

\* the ownership comparison never denies
NotOwner_Never(poll, user) == FALSE

\* poll.user_id !== user.id
NotOwner(poll, user) == poll.user_id # user

\* lines 188-201
DeletePollGetPoll(r) ==
  /\ Quiet
  /\ req[r].op = "deletePoll" /\ req[r].pc = "getPoll"
  /\ \/ Return(r, ErrStore)
     \/ /\ PollRows(req[r].pollId) = {}
        /\ Return(r, ErrStore)
     \/ \E poll \in PollRows(req[r].pollId) :
          IF NotOwner(poll, req[r].user)
          THEN Return(r, ErrPermDelete)
          ELSE Goto(r, "delVotes")
  /\ UNCHANGED <<cookie, issued, latest, polls, votes, nextId, started, createForm, authProvider>>

\* the error of the vote deletion is not looked at
DeletePollVotes_IgnoreError(r) ==
  /\ Quiet
  /\ req[r].op = "deletePoll" /\ req[r].pc = "delVotes"
  /\ \/ /\ Goto(r, "delPoll")
        /\ UNCHANGED votes
     \/ /\ votes' = DeleteVotesOf(req[r].pollId)
        /\ req' = [Live EXCEPT ![r] =
                     [req[r] EXCEPT !.pc = "delPoll",
                                    !.deleted = VotesOfPoll(req[r].pollId) > 0]]
  /\ UNCHANGED <<cookie, issued, latest, polls, nextId, started, createForm, authProvider>>

\* lines 204-210; the record notes whether the call removed any row
DeletePollVotes(r) ==
  /\ Quiet
  /\ req[r].op = "deletePoll" /\ req[r].pc = "delVotes"
  /\ \/ /\ Return(r, ErrStore)
        /\ UNCHANGED votes
     \/ /\ votes' = DeleteVotesOf(req[r].pollId)
        /\ req' = [Live EXCEPT ![r] =
                     [req[r] EXCEPT !.pc = "delPoll",
                                    !.deleted = VotesOfPoll(req[r].pollId) > 0]]
  /\ UNCHANGED <<cookie, issued, latest, polls, nextId, started, createForm, authProvider>>

\* the poll row is deleted and the call is answered with an error
DeletePollRow_DeletedOnError(r) ==
  /\ Quiet
  /\ req[r].op = "deletePoll" /\ req[r].pc = "delPoll"
  /\ \/ /\ Return(r, ErrStore)
        /\ polls' = polls \ PollRows(req[r].pollId)
     \/ /\ polls' = polls \ PollRows(req[r].pollId)
        /\ Return(r, ErrNull)
  /\ UNCHANGED <<cookie, issued, latest, votes, nextId, started, createForm, authProvider>>

\* lines 212-218
DeletePollRow(r) ==
  /\ Quiet
  /\ req[r].op = "deletePoll" /\ req[r].pc = "delPoll"
  /\ \/ /\ Return(r, ErrStore)
        /\ UNCHANGED polls
     \/ /\ polls' = polls \ PollRows(req[r].pollId)
        /\ Return(r, ErrNull)
  /\ UNCHANGED <<cookie, issued, latest, votes, nextId, started, createForm, authProvider>>

\* ----------------------------------------------------------- updatePoll
\* lines 221-228
UpdatePollStart(r) ==
  /\ \E pollId \in PollIds, token \in TokenFields :
       LET call == [IdleReq EXCEPT !.op = "updatePoll", !.token = token,
                                   !.pollId = pollId]
       IN Receive(r, IF TokenRejected(cookie, token)
                     THEN [call EXCEPT !.pc = "done", !.result = ErrToken]
                     ELSE [call EXCEPT !.pc = "validate"])
  /\ UNCHANGED <<cookie, issued, latest, polls, votes, nextId, createForm, authProvider>>

\* lines 230-265
UpdatePollValidate(r) == ValidateStep(r, "updatePoll")

\* lines 267-280
UpdatePollGetUser(r) ==
  GetUserStep(r, "updatePoll", TRUE, ErrLoginUpdate,
              [a \in BOOLEAN |-> "getPoll"])

\* the admin bypass is missing
UpdateDenied_NoAdmin(poll, user) == NotOwner(poll, user)

\* if (!isAdmin && poll.user_id !== user.id)
UpdateDenied(poll, user) == ~IsAdmin(user) /\ NotOwner(poll, user)

\* lines 282-295
UpdatePollGetPoll(r) ==
  /\ Quiet
  /\ req[r].op = "updatePoll" /\ req[r].pc = "getPoll"
  /\ \/ Return(r, ErrStore)
     \/ /\ PollRows(req[r].pollId) = {}
        /\ Return(r, ErrStore)
     \/ \E poll \in PollRows(req[r].pollId) :
          IF UpdateDenied(poll, req[r].user)
          THEN Return(r, ErrPermUpdate)
          ELSE Goto(r, "update")
  /\ UNCHANGED <<cookie, issued, latest, polls, votes, nextId, started, createForm, authProvider>>

\* lines 297-316
UpdatePollWrite(r) ==
  /\ Quiet
  /\ req[r].op = "updatePoll" /\ req[r].pc = "update"
  /\ \/ /\ Return(r, ErrStore)
        /\ UNCHANGED polls
     \/ /\ polls' = UpdatePollRows(req[r].pollId, Trim(req[r].question[1]),
                                   TrimAll(req[r].options))
        /\ Return(r, ErrNull)
  /\ UNCHANGED <<cookie, issued, latest, votes, nextId, started, createForm, authProvider>>

\* ---------------------------------------------------------------- system
Next ==
  \/ IssueToken
  \/ ExpireCookie
  \/ \E r \in Reqs : CreatePollStart(r)
  \/ \E r \in Reqs : CreatePollValidate(r)
  \/ \E r \in Reqs : CreatePollGetUser(r)
  \/ \E r \in Reqs : CreatePollInsert(r)
  \/ \E r \in Reqs : SubmitVoteStart(r)
  \/ \E r \in Reqs : SubmitVoteGetUser(r)
  \/ \E r \in Reqs : SubmitVoteCheck(r)
  \/ \E r \in Reqs : SubmitVoteGetPoll(r)
  \/ \E r \in Reqs : SubmitVoteInsert(r)
  \/ \E r \in Reqs : DeletePollStart(r)
  \/ \E r \in Reqs : DeletePollGetUser(r)
  \/ \E r \in Reqs : DeletePollGetPoll(r)
  \/ \E r \in Reqs : DeletePollVotes(r)
  \/ \E r \in Reqs : DeletePollRow(r)
  \/ \E r \in Reqs : UpdatePollStart(r)
  \/ \E r \in Reqs : UpdatePollValidate(r)
  \/ \E r \in Reqs : UpdatePollGetUser(r)
  \/ \E r \in Reqs : UpdatePollGetPoll(r)
  \/ \E r \in Reqs : UpdatePollWrite(r)

Spec == Init /\ [][Next]_vars

\* one request at a time: a request is received only when none is in flight
Alone == \A r \in Reqs : Free(r)

NextSeq ==
  \/ IssueToken
  \/ ExpireCookie
  \/ \E r \in Reqs : Alone /\ CreatePollStart(r)
  \/ \E r \in Reqs : CreatePollValidate(r)
  \/ \E r \in Reqs : CreatePollGetUser(r)
  \/ \E r \in Reqs : CreatePollInsert(r)
  \/ \E r \in Reqs : Alone /\ SubmitVoteStart(r)
  \/ \E r \in Reqs : SubmitVoteGetUser(r)
  \/ \E r \in Reqs : SubmitVoteCheck(r)
  \/ \E r \in Reqs : SubmitVoteGetPoll(r)
  \/ \E r \in Reqs : SubmitVoteInsert(r)
  \/ \E r \in Reqs : Alone /\ DeletePollStart(r)
  \/ \E r \in Reqs : DeletePollGetUser(r)
  \/ \E r \in Reqs : DeletePollGetPoll(r)
  \/ \E r \in Reqs : DeletePollVotes(r)
  \/ \E r \in Reqs : DeletePollRow(r)
  \/ \E r \in Reqs : Alone /\ UpdatePollStart(r)
  \/ \E r \in Reqs : UpdatePollValidate(r)
  \/ \E r \in Reqs : UpdatePollGetUser(r)
  \/ \E r \in Reqs : UpdatePollGetPoll(r)
  \/ \E r \in Reqs : UpdatePollWrite(r)

SpecSeq == Init /\ [][NextSeq]_vars

\* ----------------------------------------------------------- middleware
\* request.method and request.nextUrl.pathname (a sequence of characters)
Methods == {"GET", "HEAD", "OPTIONS", "POST"}
SafeMethods == {"GET", "HEAD", "OPTIONS"}
PathApiAuth == <<"/", "a", "p", "i", "/", "a", "u", "t", "h">>
PathNext == <<"/", "_", "n", "e", "x", "t">>
PathFavicon ==
  <<"/", "f", "a", "v", "i", "c", "o", "n", ".", "i", "c", "o">>
PathAdmin == <<"/", "a", "d", "m", "i", "n">>
Paths ==
  { PathApiAuth \o <<"/", "x">>,
    PathApiAuth \o <<"z">>,
    PathNext \o <<"/", "s">>,
    PathFavicon,
    PathAdmin \o <<"/", "p">>,
    <<"/", "a", "p", "i", "/", "c", "s", "r", "f">> }
\* pathname.startsWith(prefix)
StartsWith(path, prefix) ==
  Len(prefix) <= Len(path) /\ SubSeq(path, 1, Len(prefix)) = prefix

\* the response of updateSession(request): it lets the request through
\* or answers it itself
ResNext == "next"
ResRedirectLogin == "redirect:/login"
ResRedirectHome == "redirect:/"
Res403 == "403"
UpdateSessionResponses == {ResNext, ResRedirectLogin}

\* every path under /api is skipped
SkipCSRFCheck_Api(path) ==
  \/ StartsWith(path, <<"/", "a", "p", "i">>)
  \/ StartsWith(path, PathNext)
  \/ StartsWith(path, PathFavicon)

\* skipCSRFCheck: ['/api/auth', '/_next', '/favicon.ico'].some(startsWith)
SkipCSRFCheck(path) ==
  \/ StartsWith(path, PathApiAuth)
  \/ StartsWith(path, PathNext)
  \/ StartsWith(path, PathFavicon)

\* csrfProtection(request): header is <<>> (no X-CSRF-Token) or <<value>>
csrfProtection(method, stored, header) ==
  IF method \in SafeMethods THEN TRUE
  ELSE IF header = Absent \/ header[1] = EmptyToken THEN FALSE
  ELSE validateCSRFToken(stored, header[1])

\* middleware(request): updateSession, the admin route protection, the
\* CSRF check; it touches nothing shared and runs as one step.  The
\* session is looked at (isAdmin) only for a path under /admin.
Middleware(r) ==
  /\ \E method \in Methods, path \in Paths, header \in TokenFields,
        res \in UpdateSessionResponses,
        session \in {NoUser, "u1", "adm"} :
       LET call == [IdleReq EXCEPT !.op = "middleware", !.pc = "done",
                                   !.method = method, !.path = path,
                                   !.token = header, !.user = session]
       IN /\ StartsWith(path, PathAdmin) \/ session = NoUser
          /\ Receive(r,
            IF StartsWith(path, PathAdmin) /\ ~IsAdmin(session)
            THEN [call EXCEPT !.result = ResRedirectHome]
            ELSE IF ~SkipCSRFCheck(path) /\ method \notin SafeMethods
                    /\ ~csrfProtection(method, cookie, header)
            THEN [call EXCEPT !.result = Res403]
            ELSE [call EXCEPT !.result = res])
  /\ UNCHANGED <<cookie, issued, latest, polls, votes, nextId, createForm, authProvider>>

NextMiddleware ==
  \/ IssueToken
  \/ ExpireCookie
  \/ \E r \in Reqs : Middleware(r)

SpecMiddleware == Init /\ [][NextMiddleware]_vars

\* the client: the pages' forms and direct calls of the server actions,
\* one request at a time
NextClient ==
  \/ IssueToken
  \/ ExpireCookie
  \/ \E r \in Reqs : Alone /\ PollCreateFormSubmit(r)
  \/ \E r \in Reqs : Alone /\ CreatePollStart(r)
  \/ \E r \in Reqs : CreatePollValidate(r)
  \/ \E r \in Reqs : CreatePollGetUser(r)
  \/ \E r \in Reqs : CreatePollInsert(r)
  \/ \E r \in Reqs : Alone /\ SubmitVoteStart(r)
  \/ \E r \in Reqs : SubmitVoteGetUser(r)
  \/ \E r \in Reqs : SubmitVoteCheck(r)
  \/ \E r \in Reqs : SubmitVoteGetPoll(r)
  \/ \E r \in Reqs : SubmitVoteInsert(r)
  \/ \E r \in Reqs : Alone /\ DeletePollStart(r)
  \/ \E r \in Reqs : DeletePollGetUser(r)
  \/ \E r \in Reqs : DeletePollGetPoll(r)
  \/ \E r \in Reqs : DeletePollVotes(r)
  \/ \E r \in Reqs : DeletePollRow(r)
  \/ \E r \in Reqs : Alone /\ UpdatePollStart(r)
  \/ \E r \in Reqs : UpdatePollValidate(r)
  \/ \E r \in Reqs : UpdatePollGetUser(r)
  \/ \E r \in Reqs : UpdatePollGetPoll(r)
  \/ \E r \in Reqs : UpdatePollWrite(r)

SpecClient == Init /\ [][NextClient]_vars

\* the next step of request r: the continuation of the await it is at
RequestStep(r) ==
  \/ CreatePollValidate(r) \/ CreatePollGetUser(r) \/ CreatePollInsert(r)
  \/ SubmitVoteGetUser(r) \/ SubmitVoteCheck(r) \/ SubmitVoteGetPoll(r)
  \/ SubmitVoteInsert(r)
  \/ DeletePollGetUser(r) \/ DeletePollGetPoll(r) \/ DeletePollVotes(r)
  \/ DeletePollRow(r)
  \/ UpdatePollValidate(r) \/ UpdatePollGetUser(r) \/ UpdatePollGetPoll(r)
  \/ UpdatePollWrite(r)

\* every external call returns (a result or an error), and the runtime
\* then runs the continuation of the request that awaited it
SpecLive == Spec /\ \A r \in Reqs : WF_vars(RequestStep(r))

\* the create and edit forms, one submission at a time, with questions
\* and options at the limits of the input rules
CreatePollValidateForm(r) ==
  ValidateStepOn(r, "createPoll", FormQuestionFields, FormOptionFields)
UpdatePollValidateForm(r) ==
  ValidateStepOn(r, "updatePoll", FormQuestionFields, FormOptionFields)

NextForm ==
  \/ IssueToken
  \/ \E r \in Reqs : Alone /\ CreatePollStart(r)
  \/ \E r \in Reqs : CreatePollValidateForm(r)
  \/ \E r \in Reqs : CreatePollGetUser(r)
  \/ \E r \in Reqs : CreatePollInsert(r)
  \/ \E r \in Reqs : Alone /\ UpdatePollStart(r)
  \/ \E r \in Reqs : UpdatePollValidateForm(r)
  \/ \E r \in Reqs : UpdatePollGetUser(r)
  \/ \E r \in Reqs : UpdatePollGetPoll(r)
  \/ \E r \in Reqs : UpdatePollWrite(r)

SpecForm == Init /\ [][NextForm]_vars

\* ------------------------------------------------ a store with two polls
\* The store after u1 and u2 have each created a poll and voted on the
\* other's; updatePoll is then called on the first poll.
StoredPolls ==
  { [id |-> 1, user_id |-> "u1", question |-> <<"p">>,
     options |-> << <<"m">>, <<"n">> >>],
    [id |-> MaxPolls + 1, user_id |-> "u2", question |-> <<"w">>,
     options |-> << <<"m">>, <<"n">>, <<"o">> >>] }
StoredVotes ==
  SetToBag({ [poll_id |-> 1, user_id |-> "u2", option_index |-> 0],
             [poll_id |-> MaxPolls + 1, user_id |-> "u1",
              option_index |-> 2] })

InitStored ==
  /\ cookie = NoCookie
  /\ issued = {}
  /\ latest = <<>>
  /\ polls = StoredPolls
  /\ votes = StoredVotes
  /\ nextId = MaxPolls + 2
  /\ req = [r \in Reqs |-> IdleReq]
  /\ started = 0
  /\ createForm = [options |-> InitialOptions, rendered |-> InitialOptions]
  /\ authProvider =
       [session |-> NoSession, user |-> NoUser, loading |-> TRUE,
        mounted |-> TRUE, getUser |-> "pending", subscribed |-> TRUE]

NextStored ==
  \/ IssueToken
  \/ ExpireCookie
  \/ \E r \in Reqs : UpdatePollStart(r)
  \/ \E r \in Reqs : UpdatePollValidate(r)
  \/ \E r \in Reqs : UpdatePollGetUser(r)
  \/ \E r \in Reqs : UpdatePollGetPoll(r)
  \/ \E r \in Reqs : UpdatePollWrite(r)

SpecStored == InitStored /\ [][NextStored]_vars

\* ------------------------------------------- PollCreateForm (component)
\* createForm.options is the state the queued updaters have produced;
\* createForm.rendered is the value of `options` the last render gave to
\* the handlers' closures and to the inputs on the page.
server == <<cookie, issued, latest, polls, votes, nextId, req, started>>

\* React renders the component: the handlers now close over the state
Render ==
  /\ createForm.rendered # createForm.options
  /\ createForm' = [createForm EXCEPT !.rendered = createForm.options]
  /\ UNCHANGED <<server, authProvider>>

\* setOptions(opts => [...opts, ""])
addOption ==
  /\ Len(createForm.options) < MaxFormOptions
  /\ createForm' = [createForm EXCEPT !.options = Append(@, <<>>)]
  /\ UNCHANGED <<server, authProvider>>

\* opts.filter((_, i) => i !== idx)
WithoutIndex(opts, idx) ==
  [i \in 1..(Len(opts) - (IF idx <= Len(opts) THEN 1 ELSE 0)) |->
     IF i < idx THEN opts[i] ELSE opts[i + 1]]

\* the guard reads the rendered `options`; the updater runs on the state
removeOption(idx) ==
  /\ Len(createForm.rendered) > FormMinOptions
  /\ createForm' = [createForm EXCEPT !.options = WithoutIndex(@, idx)]
  /\ UNCHANGED <<server, authProvider>>

\* opts.map((opt, i) => (i === idx ? value : opt))
handleOptionChange(idx, value) ==
  /\ createForm' =
       [createForm EXCEPT !.options =
          [i \in 1..Len(@) |-> IF i = idx THEN value ELSE @[i]]]
  /\ createForm' # createForm
  /\ UNCHANGED <<server, authProvider>>

\* --------------------------------------------- AuthProvider (component)
\* await supabase.auth.getUser() resolves; if (mounted) { ... }
GetUserResolved(dataUser) ==
  /\ authProvider.getUser = "pending"
  /\ authProvider' =
       IF authProvider.mounted
       THEN [authProvider EXCEPT !.getUser = "resolved", !.user = dataUser,
                                 !.session = NoSession, !.loading = FALSE]
       ELSE [authProvider EXCEPT !.getUser = "resolved"]
  /\ UNCHANGED <<server, createForm>>

\* the callback given to onAuthStateChange, while subscribed
AuthStateChange(session) ==
  /\ authProvider.subscribed
  /\ authProvider' = [authProvider EXCEPT !.session = session,
                                          !.user = SessionUser(session)]
  /\ authProvider' # authProvider
  /\ UNCHANGED <<server, createForm>>

\* the effect's cleanup: mounted = false; subscription.unsubscribe()
Unmount ==
  /\ authProvider.mounted
  /\ authProvider' = [authProvider EXCEPT !.mounted = FALSE,
                                          !.subscribed = FALSE]
  /\ UNCHANGED <<server, createForm>>

\* the events of the page (each button and input belongs to one of the
\* rendered options) and of the session
NextComponents ==
  \/ Render
  \/ addOption
  \/ \E idx \in 1..Len(createForm.rendered) : removeOption(idx)
  \/ \E idx \in 1..Len(createForm.rendered), value \in OptionValues :
       handleOptionChange(idx, value)
  \/ \E dataUser \in Users \cup {NoUser} : GetUserResolved(dataUser)
  \/ \E session \in AuthSessions : AuthStateChange(session)
  \/ Unmount

SpecComponents == Init /\ [][NextComponents]_vars

\* ======================================================== properties
\* request r takes a step (it is in flight before it)
Stepping(r) == req[r].pc \notin {"idle", "done"} /\ req'[r] # req[r]
\* request r is received in this step
Arrived(r) == started' # started /\ Free(r) /\ req'[r].op # "idle"
\* r's response is returned in this step
Returned(r) == req[r].pc # "done" /\ req'[r].pc = "done"
\* the tables are the same after the step
TablesUnchanged == polls' = polls /\ votes' = votes
Candidates == {EmptyToken} \cup Secrets

\* C1: only the secret of the most recent issuance validates; a secret of
\* an earlier issuance (another value) is rejected, and createPoll
\* submitted with it returns the invalid-security-token error.
C1_OnlyLatestValid ==
  /\ \A t \in Candidates :
       validateCSRFToken(cookie, t) => latest = <<t>>
  /\ \A t \in issued :
       latest # <<t>> => ~validateCSRFToken(cookie, t)
  /\ \A r \in Reqs :
       ( /\ req[r].op = "createPoll"
         /\ req[r].token # Absent
         /\ req[r].token # latest
         /\ req[r].token[1] \in issued )
       => (req[r].pc = "done" /\ req[r].result = ErrToken)

\* a second issuance has replaced the cookie, and createPoll with the
\* secret of the first issuance has just been turned away
C1_Witness ==
  \E r \in Reqs :
    /\ cookie # NoCookie
    /\ req[r].op = "createPoll"
    /\ req[r].token # Absent
    /\ req[r].token # latest
    /\ req[r].token[1] \in issued
    /\ req[r].result = ErrToken

\* C2 as stated: the secret of the last issuance validates as long as no
\* other issuance follows, and validation is exactly "a stored hash exists
\* and equals the hash of the candidate".
C2_AsStated ==
  /\ latest # <<>> => validateCSRFToken(cookie, latest[1])
  /\ \A c \in Candidates :
       validateCSRFToken(cookie, c)
         <=> (cookie # NoCookie /\ cookie = hashToken(c))

\* C2 amended: the secret of the last issuance validates as long as no
\* other issuance follows and the cookie has not expired; validation is
\* exactly "a stored hash exists and equals the hash of the candidate".
C2_UntilExpiry ==
  /\ (latest # <<>> /\ cookie # NoCookie)
       => validateCSRFToken(cookie, latest[1])
  /\ \A c \in Candidates :
       validateCSRFToken(cookie, c)
         <=> (cookie # NoCookie /\ cookie = hashToken(c))

\* createPoll presented the secret of the last issuance and went past the
\* token check
C2_Witness ==
  \E r \in Reqs :
    /\ req[r].op = "createPoll" /\ req[r].pc = "validate"
    /\ req[r].token = latest
    /\ cookie = hashToken(latest[1])

\* C3: the empty candidate never validates, and without a stored hash no
\* candidate validates.
C3_EmptyAndNoCookie ==
  /\ ~validateCSRFToken(cookie, EmptyToken)
  /\ cookie = NoCookie =>
       \A c \in Candidates : ~validateCSRFToken(cookie, c)

\* the empty string was presented while a hash is stored, and was refused
C3_Witness ==
  \E r \in Reqs :
    /\ cookie # NoCookie
    /\ req[r].op \in {"createPoll", "updatePoll"}
    /\ req[r].token = <<EmptyToken>>
    /\ req[r].result = ErrToken

\* the payload has no csrf_token field, or its value is not the secret
\* whose hash the cookie holds
TokenBad(stored, token) ==
  token = Absent \/ stored = NoCookie \/ stored # <<"sha256", token[1]>>

\* C4: createPoll and updatePoll fail closed: a request without a token,
\* or with one that does not validate, is answered at once with the
\* invalid-security-token error and the tables stay as they are, before
\* the session, the question or the options are looked at.
C4_FailClosed ==
  [][\A r \in Reqs :
       ( /\ Arrived(r)
         /\ req'[r].op \in {"createPoll", "updatePoll"}
         /\ TokenBad(cookie, req'[r].token) )
       => ( /\ req'[r].pc = "done"
            /\ req'[r].result = ErrToken
            /\ TablesUnchanged )]_vars

\* updatePoll on an existing poll was refused for a token that is not the
\* current one
C4_Witness ==
  \E r \in Reqs :
    /\ req[r].op = "updatePoll" /\ req[r].pc = "done"
    /\ req[r].token # Absent /\ req[r].token[1] \in Secrets
    /\ req[r].result = ErrToken
    /\ PollRows(req[r].pollId) # {}

LoginError(op) ==
  CASE op = "createPoll" -> ErrLoginCreate
    [] op = "submitVote" -> ErrLoginVote
    [] op = "deletePoll" -> ErrLoginDelete
    [] op = "updatePoll" -> ErrLoginUpdate

\* C5: a request whose getUser found no user is answered with the
\* must-be-logged-in error of its handler and changes nothing; every step
\* that changes polls or votes is a step of a request that getUser gave a
\* user, whatever else is in flight.
C5_NoMutationWithoutUser ==
  [][/\ \A r \in Reqs :
          ( /\ Stepping(r) /\ req[r].pc = "getUser"
            /\ req'[r].user = NoUser )
          => ( /\ req'[r].pc = "done"
               /\ req'[r].result = LoginError(req[r].op)
               /\ TablesUnchanged )
     /\ ~TablesUnchanged =>
          \E r \in Reqs : Stepping(r) /\ req[r].user \in Users]_vars

\* deletePoll without a user was turned away while a poll exists and
\* another request is in flight
C5_Witness ==
  \E r, q \in Reqs :
    /\ req[r].op = "deletePoll" /\ req[r].pc = "done"
    /\ req[r].user = NoUser
    /\ req[r].result = ErrLoginDelete
    /\ PollRows(req[r].pollId) # {}
    /\ ~Free(q)

PermissionError(op) ==
  IF op = "deletePoll" THEN ErrPermDelete ELSE ErrPermUpdate

\* C6: deletePoll / updatePoll by an identity that neither owns the poll
\* nor is an admin: its ownership check on the existing poll returns the
\* permission error (or the error of a failed select) and changes
\* nothing; and no step of a deletePoll or updatePoll request changes the
\* tables unless its identity is an admin or owns the poll.
C6_NonOwnerDenied ==
  [][\A r \in Reqs :
       ( /\ Stepping(r)
         /\ req[r].op \in {"deletePoll", "updatePoll"}
         /\ req[r].user \in Users \ Admins
         /\ \E p \in PollRows(req[r].pollId) : p.user_id # req[r].user )
       => ( /\ TablesUnchanged
            /\ req[r].pc = "getPoll" =>
                 ( /\ req'[r].pc = "done"
                   /\ req'[r].result
                        \in {PermissionError(req[r].op), ErrStore} ) )]_vars

\* deletePoll by a non-owner was refused; the poll and a vote on it exist
C6_Witness ==
  \E r \in Reqs :
    /\ req[r].op = "deletePoll"
    /\ req[r].result = ErrPermDelete
    /\ \E p \in PollRows(req[r].pollId) :
         p.user_id # req[r].user /\ VotesOfPoll(p.id) > 0

\* C7: with requests run one at a time, deletePoll / updatePoll on an
\* existing poll by its owner or by an admin ends with a store error or
\* with error null, never with a permission error; with error null the
\* poll row is gone (delete) or carries the trimmed question and options
\* (update).
C7_OwnerOrAdminSucceeds ==
  [][\A r \in Reqs :
       ( /\ Stepping(r) /\ Returned(r)
         /\ req[r].op \in {"deletePoll", "updatePoll"}
         /\ req[r].pc \in {"getPoll", "delVotes", "delPoll", "update"}
         /\ \E p \in PollRows(req[r].pollId) :
              p.user_id = req[r].user \/ req[r].user \in Admins )
       => ( /\ req'[r].result \in {ErrNull, ErrStore}
            /\ ( req'[r].result = ErrNull /\ req[r].op = "deletePoll" )
                 => \A p \in polls' : p.id # req[r].pollId
            /\ ( req'[r].result = ErrNull /\ req[r].op = "updatePoll" )
                 => \A p \in polls' :
                      p.id = req[r].pollId =>
                        /\ p.question = Trim(req[r].question[1])
                        /\ p.options = TrimAll(req[r].options) )]_vars

\* an admin who does not own the poll has updated it
C7_Witness ==
  \E r \in Reqs :
    /\ req[r].op = "updatePoll" /\ req[r].result = ErrNull
    /\ req[r].user \in Admins
    /\ \E p \in PollRows(req[r].pollId) :
         /\ p.user_id # req[r].user
         /\ p.options = TrimAll(req[r].options)

\* C8: with requests run one at a time there is at most one vote row per
\* (poll_id, user_id), and a submitVote by an identity that already has a
\* row on the poll is answered with the already-voted error (or the error
\* of a failed lookup) and adds nothing.
C8_SecondVoteRejected ==
  /\ [](\A p \in PollIds, u \in Users : VoteCount(p, u) <= 1)
  /\ [][\A r \in Reqs :
          ( /\ Stepping(r)
            /\ req[r].op = "submitVote" /\ req[r].pc = "checkVote"
            /\ VoteCount(req[r].pollId, req[r].user) >= 1 )
          => ( /\ req'[r].pc = "done"
               /\ req'[r].result \in {ErrAlreadyVoted, ErrStore}
               /\ TablesUnchanged )]_vars

\* a second submitVote of an identity was answered with already-voted
C8_Witness ==
  \E r \in Reqs :
    /\ req[r].op = "submitVote"
    /\ req[r].result = ErrAlreadyVoted
    /\ VoteCount(req[r].pollId, req[r].user) = 1

\* C9: the insert of submitVote looks at no existing row: unless the
\* store call fails it returns error null and adds a row, also when the
\* identity already has a row on the poll.  Two interleaved requests that
\* both passed the lookup therefore leave two rows (C9_Witness).
C9_InsertUnchecked ==
  [][\A r \in Reqs :
       ( /\ Stepping(r)
         /\ req[r].op = "submitVote" /\ req[r].pc = "insert"
         /\ req'[r].result # ErrStore )
       => ( /\ req'[r].result = ErrNull
            /\ VoteCount(req[r].pollId, req[r].user)'
                 = VoteCount(req[r].pollId, req[r].user) + 1 )]_vars

\* two rows of one identity on one poll, the second request answered with
\* error null like the first
C9_Witness ==
  \E r \in Reqs :
    /\ req[r].op = "submitVote" /\ req[r].result = ErrNull
    /\ VoteCount(req[r].pollId, req[r].user) = 2

\* C10: every vote row's option_index is within the options of the poll
\* it references.
C10_IndexInRange ==
  \A v \in BagToSet(votes) :
    \A p \in PollRows(v.poll_id) :
      0 <= v.option_index /\ v.option_index < Len(p.options)

\* C11: submitVote by a signed-in identity without a row on an existing
\* poll, with an option_index below 0 or at or above the number of the
\* poll's options: the step that reads the poll returns the
\* invalid-option error and the tables stay as they are; the request
\* never reaches the insert.
C11_IndexRejected ==
  [][\A r \in Reqs :
       ( /\ Stepping(r)
         /\ req[r].op = "submitVote" /\ req[r].pc = "getPoll"
         /\ req[r].user \in Users
         /\ \E p \in PollRows(req[r].pollId) :
              \/ req'[r].optionIndex < 0
              \/ req'[r].optionIndex >= Len(p.options) )
       => ( /\ req'[r].pc = "done"
            /\ req'[r].result = ErrInvalidOption
            /\ TablesUnchanged )]_vars

\* an index equal to the number of options of the poll was refused, the
\* identity has no row on the poll
C11_Witness ==
  \E r \in Reqs :
    /\ req[r].op = "submitVote"
    /\ req[r].result = ErrInvalidOption
    /\ VoteCount(req[r].pollId, req[r].user) = 0
    /\ \E p \in PollRows(req[r].pollId) :
         req[r].optionIndex = Len(p.options)

\* the input rules with every length limit on the trimmed text: the
\* question is non-empty after trimming and at most 500 characters; 2 to
\* 10 options, each non-empty and at most 200 characters after trimming,
\* no two equal after trimming
InputRulesTrimmed(question, options) ==
  /\ question # Absent
  /\ Trim(question[1]) # <<>>
  /\ Len(question[1]) <= MaxQuestionLen
  /\ Len(options) >= MinOptions /\ Len(options) <= MaxOptions
  /\ \A i \in 1..Len(options) :
       Trim(options[i]) # <<>> /\ Len(Trim(options[i])) <= MaxOptionLen
  /\ \A i, j \in 1..Len(options) :
       i # j => Trim(options[i]) # Trim(options[j])

\* the same rules with the length of an option taken as submitted
InputRulesMet(question, options) ==
  /\ question # Absent
  /\ Trim(question[1]) # <<>>
  /\ Len(question[1]) <= MaxQuestionLen
  /\ Len(options) >= MinOptions /\ Len(options) <= MaxOptions
  /\ \A i \in 1..Len(options) :
       Trim(options[i]) # <<>> /\ Len(options[i]) <= MaxOptionLen
  /\ \A i, j \in 1..Len(options) :
       i # j => Trim(options[i]) # Trim(options[j])

\* createPoll past its token check: input for which Rules holds passes
\* validation, and with a signed-in identity and a store call that does
\* not fail exactly one poll row (the trimmed question and options) is
\* added and error null returned; any other input is answered with an
\* error and the tables stay as they are
CreatePollIff(Rules(_, _)) ==
  \A r \in Reqs :
    ( Stepping(r) /\ req[r].op = "createPoll" )
    => ( /\ req[r].pc = "validate" =>
              IF Rules(req'[r].question, req'[r].options)
              THEN req'[r].pc = "getUser"
              ELSE /\ req'[r].pc = "done"
                   /\ req'[r].result \notin {ErrNull, Pending}
                   /\ TablesUnchanged
         /\ ( req[r].pc = "insert" /\ req'[r].result # ErrStore ) =>
              /\ req'[r].result = ErrNull
              /\ Rules(req[r].question, req[r].options)
              /\ Cardinality(polls') = Cardinality(polls) + 1
              /\ \E p \in polls' \ polls :
                   /\ p.question = Trim(req[r].question[1])
                   /\ p.options = TrimAll(req[r].options) )

\* C12 as stated: with a valid token, a signed-in identity and a store
\* that does not fail, createPoll succeeds and persists exactly one poll
\* if and only if the question is non-empty after trimming and at most 500
\* characters and there are 2 to 10 options, each non-empty and at most
\* 200 characters after trimming, no two equal after trimming; otherwise
\* it returns an error and persists nothing.
C12_AsStated == [][CreatePollIff(InputRulesTrimmed)]_vars

\* C12 amended: the same, with the options being the submitted ones that
\* are not the empty string and the 200-character limit applying to each
\* option as submitted, before trimming.
C12_ValidIffPersisted == [][CreatePollIff(InputRulesMet)]_vars

\* createPoll has persisted a poll with a question of 500 characters and
\* 10 options
C12_Witness ==
  \E r \in Reqs :
    /\ req[r].op = "createPoll" /\ req[r].result = ErrNull
    /\ \E p \in polls :
         /\ p.question = Trim(req[r].question[1])
         /\ Len(p.question) = MaxQuestionLen
         /\ Len(p.options) = MaxOptions

\* C13: every row of polls has a question that is trimmed, non-empty and
\* at most 500 characters, and 2 to 10 options, each trimmed, non-empty
\* and at most 200 characters, no two of them equal.
C13_StoredPollsValid ==
  \A p \in polls :
    /\ p.question # <<>>
    /\ Trim(p.question) = p.question
    /\ Len(p.question) <= MaxQuestionLen
    /\ Len(p.options) >= MinOptions /\ Len(p.options) <= MaxOptions
    /\ \A i \in 1..Len(p.options) :
         /\ p.options[i] # <<>>
         /\ Trim(p.options[i]) = p.options[i]
         /\ Len(p.options[i]) <= MaxOptionLen
    /\ \A i, j \in 1..Len(p.options) :
         i # j => p.options[i] # p.options[j]

\* updatePoll has replaced the question and options of a poll by a
\* question that was submitted with a leading blank and by 10 options
C13_Witness ==
  \E r \in Reqs :
    /\ req[r].op = "updatePoll" /\ req[r].result = ErrNull
    /\ \E p \in PollRows(req[r].pollId) :
         /\ p.question # req[r].question[1]
         /\ p.question = Trim(req[r].question[1])
         /\ Len(p.options) = MaxOptions

\* the rules in the fixed order, each looked at for the whole submission
NoQuestion(question) ==
  question = Absent \/ Trim(question[1]) = <<>>
SomeOptionEmpty(options) ==
  \E i \in 1..Len(options) : Trim(options[i]) = <<>>
SomeOptionLong(options) ==
  \E i \in 1..Len(options) : Len(options[i]) > MaxOptionLen
SomeDuplicate(options) ==
  \E i, j \in 1..Len(options) :
    i # j /\ Trim(options[i]) = Trim(options[j])
\* the first option that is empty after trimming or too long
FirstBadOption(options) ==
  CHOOSE i \in 1..Len(options) :
    /\ Trim(options[i]) = <<>> \/ Len(options[i]) > MaxOptionLen
    /\ \A k \in 1..(i - 1) :
         Trim(options[k]) # <<>> /\ Len(options[k]) <= MaxOptionLen

\* the error of the first violated rule, the two option rules applied
\* as OptionRule says
FirstViolated(question, options, OptionRule(_)) ==
  IF NoQuestion(question) THEN ErrQuestion
  ELSE IF Len(question[1]) > MaxQuestionLen THEN ErrQuestionLong
  ELSE IF Len(options) < MinOptions THEN ErrFewOptions
  ELSE IF Len(options) > MaxOptions THEN ErrManyOptions
  ELSE IF SomeOptionEmpty(options) \/ SomeOptionLong(options)
  THEN OptionRule(options)
  ELSE IF SomeDuplicate(options) THEN ErrDuplicate
  ELSE ErrNull

\* any empty option comes before any option that is too long
EmptyBeforeLong(options) ==
  IF SomeOptionEmpty(options) THEN ErrEmptyOption ELSE ErrOptionLong
\* the first offending option decides; on it, empty comes before too long
FirstOptionDecides(options) ==
  IF Trim(options[FirstBadOption(options)]) = <<>>
  THEN ErrEmptyOption ELSE ErrOptionLong

\* the validation step of createPoll / updatePoll answers with the error
\* of the first violated rule, and goes on if no rule is violated
ValidationAnswers(OptionRule(_)) ==
  \A r \in Reqs :
    ( /\ Stepping(r) /\ req[r].pc = "validate"
      /\ req[r].op \in {"createPoll", "updatePoll"} )
    => LET e == FirstViolated(req'[r].question, req'[r].options, OptionRule)
       IN IF e = ErrNull
          THEN req'[r].pc = "getUser"
          ELSE req'[r].pc = "done" /\ req'[r].result = e

\* C14 as stated: a submission that violates several input rules is
\* answered with the error of the first violated rule in the order missing
\* question, question too long, too few options, too many options, empty
\* option, option too long, duplicate options; an option that is empty
\* after trimming gives the empty-option error also when an earlier option
\* is longer than 200 characters.
C14_AsStated == [][ValidationAnswers(EmptyBeforeLong)]_vars

\* C14 amended: the same order, except that the empty-option and the
\* option-too-long rule are applied option by option in list order: the
\* first option that is empty after trimming or longer than 200 characters
\* decides, and on that option emptiness is tested first.
C14_FirstRuleWins == [][ValidationAnswers(FirstOptionDecides)]_vars

\* updatePoll was answered with option-too-long for a list whose first
\* option is too long and whose second is blank
C14_Witness ==
  \E r \in Reqs :
    /\ req[r].op = "updatePoll" /\ req[r].result = ErrOptionLong
    /\ Len(req[r].options) >= MinOptions
    /\ Len(req[r].options[1]) > MaxOptionLen
    /\ Trim(req[r].options[2]) = <<>>

ValidationErrors ==
  {ErrQuestion, ErrQuestionLong, ErrFewOptions, ErrManyOptions,
   ErrEmptyOption, ErrOptionLong, ErrDuplicate}

\* C15: createPoll and updatePoll check the token, then the identity,
\* then the input: a validation error is returned only to a request that
\* getUser has given a user, so a request with a valid token, no signed-in
\* identity and an invalid question or options gets the
\* must-be-logged-in error and not a validation error.
C15_IdentityBeforeInput ==
  [][\A r \in Reqs :
       ( /\ Stepping(r) /\ Returned(r)
         /\ req[r].op \in {"createPoll", "updatePoll"}
         /\ req'[r].result \in ValidationErrors )
       => req'[r].user \in Users]_vars

\* C16: with requests run one at a time, deletePoll deletes the vote rows
\* of the poll before the poll row: a step of deletePoll changes polls
\* only after its vote deletion, a failed vote deletion ends the request
\* with the poll row in place, the poll row is deleted only when no vote
\* row of the poll is left, and after error null the tables hold neither
\* the poll nor a vote row with its poll_id.
C16_VotesThenPoll ==
  [][\A r \in Reqs :
       ( Stepping(r) /\ req[r].op = "deletePoll" )
       => ( /\ polls' # polls =>
                 ( req[r].pc = "delPoll"
                   /\ VotesOfPoll(req[r].pollId) = 0 )
            /\ votes' # votes => req[r].pc = "delVotes"
            /\ req[r].pc = "delVotes" =>
                 ( /\ polls' = polls
                   /\ \/ /\ req'[r].pc = "delPoll"
                         /\ VotesOfPoll(req[r].pollId)' = 0
                      \/ /\ req'[r].pc = "done"
                         /\ req'[r].result = ErrStore
                         /\ votes' = votes )
            /\ ( Returned(r) /\ req'[r].result = ErrNull ) =>
                 ( /\ PollRows(req[r].pollId)' = {}
                   /\ VotesOfPoll(req[r].pollId)' = 0 ) )]_vars

\* deletePoll, the third request of the run, is past its vote deletion:
\* no vote row of the poll is left and the poll row is still in place
C16_Witness ==
  \E r \in Reqs :
    /\ req[r].op = "deletePoll" /\ req[r].pc = "delPoll"
    /\ PollRows(req[r].pollId) # {}
    /\ VotesOfPoll(req[r].pollId) = 0
    /\ started = MaxRequests

\* C17: submitVote is answered with the invalid-security-token error
\* exactly when it carries a non-empty token that is not the secret whose
\* hash the cookie holds, and only at its entry; a call without a token
\* goes on.  deletePoll reads no token and no cookie: it is never turned
\* away at its entry and never answered with the token error, whatever
\* the cookie holds.
C17_TokenPerOperation ==
  [][\A r \in Reqs :
       /\ ( Arrived(r) /\ req'[r].op = "submitVote" )
            => LET t == req'[r].token
               IN IF t # Absent /\ t[1] # EmptyToken
                       /\ (cookie = NoCookie \/ cookie # <<"sha256", t[1]>>)
                  THEN req'[r].pc = "done" /\ req'[r].result = ErrToken
                  ELSE req'[r].pc = "getUser"
       /\ ( Arrived(r) /\ req'[r].op = "deletePoll" )
            => ( req'[r].pc = "getUser" /\ req'[r].token = Absent )
       /\ ( Stepping(r) /\ req[r].op \in {"submitVote", "deletePoll"} )
            => req'[r].result # ErrToken]_vars

\* without any cookie, deletePoll is about to delete the poll row while
\* a submitVote that carries no token has gone past its token check
C17_Witness ==
  \E r, q \in Reqs :
    /\ cookie = NoCookie
    /\ req[r].op = "deletePoll" /\ req[r].pc = "delPoll"
    /\ PollRows(req[r].pollId) # {}
    /\ req[q].op = "submitVote" /\ req[q].pc = "getUser"
    /\ req[q].token = Absent

\* C18: no step of a handler changes the cookie (only an issuance or the
\* expiry does), and createPoll, updatePoll and submitVote that present
\* the secret whose hash the cookie holds pass the token check every
\* time, whichever requests came before and whoever is signed in.
C18_TokenNotConsumed ==
  [][/\ cookie' # cookie =>
          ( started' = started /\ \A r \in Reqs : ~Stepping(r) )
     /\ \A r \in Reqs :
          ( /\ Arrived(r)
            /\ req'[r].op \in {"createPoll", "updatePoll", "submitVote"}
            /\ req'[r].token # Absent
            /\ cookie = <<"sha256", req'[r].token[1]>> )
          => ( /\ req'[r].pc \in {"validate", "getUser"}
               /\ cookie' = cookie )]_vars

\* one secret was ever issued; a createPoll that presented it has
\* persisted a poll, and an updatePoll presenting it again is past the
\* token check
C18_Witness ==
  \E r \in Reqs :
    /\ Cardinality(issued) = 1
    /\ polls # {}
    /\ req[r].op = "updatePoll" /\ req[r].pc = "validate"
    /\ req[r].token = latest

\* every value a handler returns as error: null or a message
Responses ==
  {ErrNull, ErrToken, ErrLoginCreate, ErrLoginVote, ErrLoginDelete,
   ErrLoginUpdate, ErrAlreadyVoted, ErrInvalidOption, ErrPermDelete,
   ErrPermUpdate, ErrAuth, ErrStore} \cup ValidationErrors

\* how far a request has come in its handler
Rank(pc) ==
  CASE pc = "validate" -> 1
    [] pc = "getUser" -> 2
    [] pc = "checkVote" -> 3
    [] pc = "getPoll" -> 4
    [] pc \in {"insert", "update", "delVotes"} -> 5
    [] pc = "delPoll" -> 6
    [] pc = "done" -> 7

\* C19: every request of createPoll, updatePoll, submitVote and
\* deletePoll ends, given that every external call returns: it returns
\* error null or an error message, every step takes it further in its
\* handler (nothing is tried again), and a failed auth or store call is
\* its last step.  (A request leaves "in flight" only by returning, so
\* "again and again not in flight" says that each request returns.)
C19_Terminates ==
  /\ [](\A r \in Reqs :
         IF req[r].pc = "done"
         THEN req[r].result \in Responses
         ELSE req[r].result = Pending)
  /\ [][\A r \in Reqs :
          Stepping(r) =>
            /\ Rank(req'[r].pc) > Rank(req[r].pc)
            /\ req'[r].result \in {ErrAuth, ErrStore} => Returned(r)]_vars
  /\ \A r \in Reqs : []<>(req[r].pc \in {"idle", "done"})

\* deletePoll has ended with the error of a failed store call while the
\* poll row is still in place
C19_Witness ==
  \E r \in Reqs :
    /\ req[r].op = "deletePoll" /\ req[r].pc = "done"
    /\ req[r].result = ErrStore
    /\ PollRows(req[r].pollId) # {}

\* C20: a submission of the poll creation form carries in csrf_token the
\* secret the client was issued; while that secret is the current one the
\* submission passes the token check of createPoll (and so, with a
\* signed-in user and a valid question and options, goes on to the
\* insert).
C20_FormCarriesToken ==
  [][\A r \in Reqs :
       ( /\ Arrived(r) /\ req'[r].form
         /\ latest # <<>> /\ cookie = <<"sha256", latest[1]>> )
       => ( /\ req'[r].token = latest
            /\ req'[r].pc = "validate" )]_vars

\* the request carries an X-CSRF-Token header whose value is the secret
\* whose hash the cookie holds
HeaderValid(stored, header) ==
  header # Absent /\ stored # NoCookie /\ stored = <<"sha256", header[1]>>
\* the CSRF check applies: the method is not GET, HEAD or OPTIONS and the
\* path starts with none of /api/auth, /_next, /favicon.ico
CsrfChecked(q) ==
  /\ q.method \notin {"GET", "HEAD", "OPTIONS"}
  /\ ~StartsWith(q.path, PathApiAuth)
  /\ ~StartsWith(q.path, PathNext)
  /\ ~StartsWith(q.path, PathFavicon)

\* the answers the middleware may give to a request that is subject to
\* the CSRF check and carries no valid header
MiddlewareGuards(Refusals(_)) ==
  \A r \in Reqs :
    ( Arrived(r) /\ req'[r].op = "middleware" )
    => LET q == req'[r]
       IN /\ q.pc = "done"
          /\ ( CsrfChecked(q) /\ ~HeaderValid(cookie, q.token) )
               => q.result \in Refusals(q)
          /\ ( CsrfChecked(q) /\ q.result = ResNext )
               => HeaderValid(cookie, q.token)
          /\ q.method \in {"GET", "HEAD", "OPTIONS"} => q.result # Res403
          /\ TablesUnchanged /\ cookie' = cookie

Only403(q) == {Res403}
ForbiddenOrAdminRedirect(q) ==
  IF StartsWith(q.path, PathAdmin) /\ q.user \notin Admins
  THEN {ResRedirectHome}
  ELSE {Res403}

\* C21 as stated: a request with a method other than GET, HEAD, OPTIONS to
\* a path outside /api/auth, /_next, /favicon.ico is let through only with
\* an X-CSRF-Token header that validates against the cookie, and is
\* otherwise answered with 403; GET, HEAD and OPTIONS are never answered
\* with 403.
C21_AsStated == [][MiddlewareGuards(Only403)]_vars

\* C21 amended: the same, except that a request to a path under /admin by
\* a requester who is not an admin is answered with the redirect to /
\* before the CSRF check, whatever header it carries; it does not reach a
\* handler either.
C21_MiddlewareGuards == [][MiddlewareGuards(ForbiddenOrAdminRedirect)]_vars

\* a POST to /api/csrf with a secret of an earlier issuance in the header
\* was answered with 403
C21_Witness ==
  \E r \in Reqs :
    /\ req[r].op = "middleware" /\ req[r].method = "POST"
    /\ ~StartsWith(req[r].path, PathAdmin)
    /\ req[r].token # Absent /\ req[r].token[1] \in issued
    /\ req[r].token # latest
    /\ cookie # NoCookie
    /\ req[r].result = Res403

\* ------------------------------------------------------------------ C22
\* C22: after any sequence of addOption, removeOption and
\* handleOptionChange events, two removeOption events handled against the
\* same rendered options value included, the options list of
\* PollCreateForm has at least 2 entries.
C22_AtLeastTwoOptions ==
  /\ Len(createForm.options) >= FormMinOptions
  /\ Len(createForm.rendered) >= FormMinOptions

\* ------------------------------------------------------------------ C23
\* C23: in every reachable state, under any interleaving of submitVote
\* and deletePoll, the poll_id of every vote row is the id of a poll row
\* that exists.
C23_VotesReferencePolls ==
  \A v \in BagToSet(votes) : PollRows(v.poll_id) # {}

\* ------------------------------------------------------------------ C24
Mutating == {"createPoll", "updatePoll", "submitVote", "deletePoll"}

\* request r returns a non-null error in this step
ReturnsError(r) ==
  Returned(r) /\ req'[r].result # ErrNull /\ req[r].op \in Mutating

\* C24 as stated: whenever createPoll, updatePoll, submitVote or
\* deletePoll returns a non-null error, the polls and votes tables are the
\* same as before the request started (with one request at a time: no
\* step of the request has changed them); in particular a deletePoll
\* whose poll deletion fails has removed no vote.
C24_AsStated ==
  [][\A r \in Reqs :
       ReturnsError(r) => ( TablesUnchanged /\ ~req[r].deleted )]_vars

\* C24: whenever createPoll, updatePoll or submitVote returns a non-null
\* error, or deletePoll returns one before or at its vote deletion, the
\* polls and votes tables are the same as before the request started.  A
\* deletePoll whose poll deletion fails after its vote deletion succeeded
\* returns the error with the poll row in place and the poll's votes
\* removed; the failing step itself changes no table.
C24_ErrorLeavesTables ==
  [][\A r \in Reqs :
       ReturnsError(r)
       => ( /\ TablesUnchanged
            /\ req[r].deleted =>
                 ( /\ req[r].op = "deletePoll" /\ req[r].pc = "delPoll"
                   /\ PollRows(req[r].pollId)' # {}
                   /\ VotesOfPoll(req[r].pollId)' = 0 ) )]_vars

\* a deletePoll has returned the store's error from its poll deletion
\* after its vote deletion removed rows: the poll row is in place and its
\* votes are gone
C24_Witness ==
  \E r \in Reqs :
    /\ req[r].op = "deletePoll" /\ req[r].pc = "done"
    /\ req[r].result = ErrStore /\ req[r].deleted
    /\ PollRows(req[r].pollId) # {}
    /\ VotesOfPoll(req[r].pollId) = 0

\* ------------------------------------------------------------------ C25
\* the rows of a table of polls, each without its question and options
Unwritten(rows) == {[id |-> p.id, user_id |-> p.user_id] : p \in rows}

\* C25: every step of updatePoll leaves the votes table as it is, leaves
\* every poll row with another id as it is, and keeps the id and the
\* user_id of the row with the given id, also when the updating identity
\* is an admin who does not own the poll: only that row's question and
\* options change.
C25_UpdateFrame ==
  [][\A r \in Reqs :
       ( Stepping(r) /\ req[r].op = "updatePoll" )
       => ( /\ votes' = votes
            /\ {p \in polls' : p.id # req[r].pollId}
                 = {p \in polls : p.id # req[r].pollId}
            /\ Unwritten(PollRows(req[r].pollId)')
                 = Unwritten(PollRows(req[r].pollId))
            /\ Cardinality(polls') = Cardinality(polls) )]_vars

\* the admin, who owns no poll, has updated the first poll: its question
\* is the new one, its owner is still u1, and the other poll and both
\* votes are in place
C25_Witness ==
  \E r \in Reqs :
    /\ req[r].op = "updatePoll" /\ req[r].pc = "done"
    /\ req[r].result = ErrNull /\ req[r].user = "adm"
    /\ \E p \in PollRows(req[r].pollId) :
         p.user_id = "u1" /\ p.question = <<"q">>
    /\ \E p \in polls : p.id # req[r].pollId
    /\ votes = StoredVotes

\* ------------------------------------------------------------------ C26
\* poll rows of polls' that this step has inserted (rows are never given
\* another id or owner by an update)
InsertedPolls ==
  {p \in polls' : \A q \in polls : q.id # p.id \/ q.user_id # p.user_id}
\* vote rows this step has inserted
InsertedVotes ==
  {v \in BagToSet(votes') : CopiesIn(v, votes') > CopiesIn(v, votes)}

\* each inserted row carries the identity of the request inserting it
InsertedByRequest ==
  /\ \A p \in InsertedPolls :
       \E r \in Reqs :
         /\ Stepping(r) /\ req[r].op = "createPoll"
         /\ req[r].user \in Users /\ p.user_id = req[r].user
  /\ \A v \in InsertedVotes :
       \E r \in Reqs :
         /\ Stepping(r) /\ req[r].op = "submitVote"
         /\ req[r].user \in Users /\ v.user_id = req[r].user

\* C26: every poll row's user_id is the identity the createPoll request
\* that inserted it was authenticated as, and every vote row's user_id is
\* the identity its submitVote request was authenticated as; no row
\* carries the null identity or an identity no request of its own had.
C26_RowsCarryIdentity ==
  /\ [](\A p \in polls : p.user_id \in Users)
  /\ [](\A v \in BagToSet(votes) : v.user_id \in Users)
  /\ [][InsertedByRequest]_vars

\* u2 has just voted on the poll u1 created: the vote row carries u2, the
\* poll row u1
C26_Witness ==
  \E r \in Reqs :
    /\ req[r].op = "submitVote" /\ req[r].pc = "done"
    /\ req[r].result = ErrNull /\ req[r].user = "u2"
    /\ \E v \in BagToSet(votes) :
         v.user_id = "u2" /\ v.poll_id = req[r].pollId
    /\ \E p \in PollRows(req[r].pollId) : p.user_id = "u1"

\* ------------------------------------------------------------------ C27
\* the initial getUser call resolves in this step
GetUserResolves ==
  authProvider.getUser = "pending" /\ authProvider'.getUser = "resolved"

\* the values AuthProvider gives to its context
Provided(a) == <<a.user, a.session, a.loading>>

\* C27: once an onAuthStateChange callback has set the user from a
\* session, the resolution of the initial getUser call neither overwrites
\* that user nor resets the session to null; and once the component has
\* unmounted, no getUser resolution and no callback changes user, session
\* or loading.
C27_CallbackStateKept ==
  [][/\ ( GetUserResolves /\ authProvider.session # NoSession )
         => ( /\ authProvider'.user = authProvider.user
              /\ authProvider'.session = authProvider.session )
     /\ ~authProvider.mounted
         => Provided(authProvider') = Provided(authProvider)]_vars

====
